---- MODULE Spec2Model ----
(***************************************************************************)
(* Model of the ST7735 driver (package st7735): the device handle, the     *)
(* command/data send primitives, the initialization batch, the addressing  *)
(* window and the pixel streaming.  Every driver operation is one action   *)
(* that runs the whole method against a recording transport; the record    *)
(* (log) lists, in order, every write of the data/command-select line,     *)
(* every SPI transaction, every backlight write and every blocking sleep.  *)
(***************************************************************************)
EXTENDS Integers, Sequences, FiniteSets, TLC

VARIABLES dev, opts, hasBacklight, dc, bl, pending, last, log, err, ret

vars == <<dev, opts, hasBacklight, dc, bl, pending, last, log, err, ret>>

(***************************************************************************)
(* Opcode catalog and package constants.                                   *)
(***************************************************************************)
ST7735_SWRESET == 1
ST7735_SLPIN == 16
ST7735_SLPOUT == 17
ST7735_FRMCTR1 == 177
ST7735_FRMCTR2 == 178
ST7735_FRMCTR3 == 179
ST7735_INVCTR == 180
ST7735_INVOFF == 32
ST7735_INVON == 33
ST7735_PWCTR1 == 192
ST7735_PWCTR2 == 193
ST7735_PWCTR4 == 195
ST7735_PWCTR5 == 196
ST7735_VMCTR1 == 197
ST7735_MADCTL == 54
ST7735_COLMOD == 58
ST7735_CASET == 42
ST7735_RASET == 43
ST7735_RAMWR == 44
ST7735_GMCTRP1 == 224
ST7735_GMCTRN1 == 225
ST7735_NORON == 19
ST7735_DISPON == 41
ST7735_TFTWIDTH == 80
ST7735_TFTHEIGHT == 160
ST7735_COLS == 132
ST7735_ROWS == 162
ChunkSize == 4096

(***************************************************************************)
(* Bounds of the exploration.                                              *)
(***************************************************************************)
\* the environment may fail any one of the first MaxFail pin/transport calls
MaxFail == 14
\* in Init, which makes 70 such calls, any one of the first MaxInitFail
MaxInitFail == 70
\* Display payloads are up to MaxChunks whole chunks, plus or minus MaxExtra bytes
MaxChunks == 2
MaxExtra == 1

(***************************************************************************)
(* Go integer conversions.                                                 *)
(***************************************************************************)
\* byte(v) of an int: the low 8 bits (two's complement for negative v)
Byte(v) == v % 256

\* v >> 8 on an int: arithmetic shift, rounds toward minus infinity
Shr8(v) == v \div 256

Min(a, b) == IF a < b THEN a ELSE b

Max(a, b) == IF a > b THEN a ELSE b

(***************************************************************************)
(* Opts and DefaultOpts.                                                   *)
(***************************************************************************)
MkOpts(w, h, l, t) == [Width |-> w, Height |-> h, OffsetLeft |-> l, OffsetTop |-> t]

DefaultOpts ==
    MkOpts(ST7735_TFTWIDTH, ST7735_TFTHEIGHT,
           (ST7735_COLS - ST7735_TFTWIDTH) \div 2,
           (ST7735_ROWS - ST7735_TFTHEIGHT) \div 2)

(***************************************************************************)
(* The recording transport.  An io record threads through one operation:   *)
(* log is the record so far, dc and bl the pin levels, n the number of     *)
(* fallible calls (select-line writes and transactions) made, failAt the   *)
(* call the environment fails (0: none), blFail whether backlight writes   *)
(* fail, err the error being returned (0: nil, else the failed call).      *)
(***************************************************************************)
MkIo(dc0, bl0, failAt, blFail) ==
    [log |-> <<>>, dc |-> dc0, bl |-> bl0, n |-> 0,
     failAt |-> failAt, blFail |-> blFail, err |-> 0]

\* d.dc.Out(level)
DcOut(io, level) ==
    LET k == io.n + 1
        bad == (k = io.failAt) IN
    [io EXCEPT !.n = k,
               !.log = Append(@, [k |-> "dc", level |-> level, ok |-> ~bad]),
               !.dc = IF bad THEN @ ELSE level,
               !.err = IF bad THEN k ELSE 0]

\* d.c.Tx(w, nil); as is "cmd" when issued by sendCommand, "data" by sendData
ConnTx(io, w, as) ==
    LET k == io.n + 1
        bad == (k = io.failAt) IN
    [io EXCEPT !.n = k,
               !.log = Append(@, [k |-> "tx", w |-> w, dc |-> io.dc,
                                  as |-> as, ok |-> ~bad]),
               !.err = IF bad THEN k ELSE 0]

\* d.backlight.Out(level); the caller drops the result
BacklightOut(io, level) ==
    [io EXCEPT !.log = Append(@, [k |-> "bl", level |-> level, ok |-> ~io.blFail]),
               !.bl = IF io.blFail THEN @ ELSE level]

\* time.Sleep(ms)
Sleep(io, ms) == [io EXCEPT !.log = Append(@, [k |-> "sleep", ms |-> ms])]

\* entry of SetWindow with its arguments as passed (before offsets are added)
Enter(io, x0, y0, x1, y1) ==
    [io EXCEPT !.log = Append(@, [k |-> "call", fn |-> "SetWindow",
                                  a |-> <<x0, y0, x1, y1>>])]

(***************************************************************************)
(* Send primitives.                                                        *)
(***************************************************************************)
\* sendCommand without the write of the select line
sendCommand_NoSelect(io, c) == ConnTx(io, c, "cmd")

sendCommand(io, c) ==
    LET a == DcOut(io, "low") IN
    IF a.err # 0 THEN a ELSE ConnTx(a, c, "cmd")

\* the chunk loop stopping when less than a whole chunk is left
RECURSIVE sendDataLoop_DropsRemainder(_, _, _)
sendDataLoop_DropsRemainder(io, c, offset) ==
    IF ~(offset + ChunkSize <= Len(c)) THEN io
    ELSE LET a == ConnTx(io, SubSeq(c, offset + 1, offset + ChunkSize), "data") IN
         IF a.err # 0 THEN a
         ELSE sendDataLoop_DropsRemainder(a, c, offset + ChunkSize)

RECURSIVE sendDataLoop(_, _, _)
sendDataLoop(io, c, offset) ==
    IF ~(offset < Len(c)) THEN io
    ELSE LET end == IF offset + ChunkSize > Len(c) THEN Len(c)
                    ELSE offset + ChunkSize
             a == ConnTx(io, SubSeq(c, offset + 1, end), "data") IN
         IF a.err # 0 THEN a ELSE sendDataLoop(a, c, offset + ChunkSize)

sendData(io, c) ==
    LET a == DcOut(io, "high") IN
    IF a.err # 0 THEN a ELSE sendDataLoop(a, c, 0)

commandAndData(cmd, data, sleep) == [cmd |-> cmd, data |-> data, sleep |-> sleep]

\* sendBatch going on to the next step when a command fails
RECURSIVE sendBatch_SkipsFailedStep(_, _)
sendBatch_SkipsFailedStep(io, commands) ==
    IF commands = <<>> THEN io
    ELSE LET cad == Head(commands)
             a == sendCommand(io, cad.cmd) IN
         IF a.err # 0 \/ Len(cad.data) = 0
         THEN sendBatch_SkipsFailedStep(a, Tail(commands))
         ELSE LET b == sendData(a, cad.data) IN
              IF b.err # 0 THEN b
              ELSE sendBatch_SkipsFailedStep(
                       IF cad.sleep > 0 THEN Sleep(b, cad.sleep) ELSE b,
                       Tail(commands))

RECURSIVE sendBatch(_, _)
sendBatch(io, commands) ==
    IF commands = <<>> THEN io
    ELSE LET cad == Head(commands)
             a == sendCommand(io, cad.cmd) IN
         IF a.err # 0 THEN a
         ELSE IF Len(cad.data) = 0 THEN sendBatch(a, Tail(commands))
         ELSE LET b == sendData(a, cad.data) IN
              IF b.err # 0 THEN b
              ELSE sendBatch(IF cad.sleep > 0 THEN Sleep(b, cad.sleep) ELSE b,
                             Tail(commands))

(***************************************************************************)
(* Dev.Init: the initialization batch.                                     *)
(***************************************************************************)
\* the inversion step: built as INVON, replaced by INVOFF under `if false`
invert ==
    IF FALSE THEN commandAndData(<<ST7735_INVOFF>>, <<>>, 0)
    ELSE commandAndData(<<ST7735_INVON>>, <<>>, 0)

\* AddressSteps with the row-address-set step issued before the column one
AddressSteps_RowFirst(o) ==
    << commandAndData(<<ST7735_RASET>>,
                      <<0, o.OffsetTop, 0, Byte(o.Height + o.OffsetTop - 1)>>, 0),
       commandAndData(<<ST7735_CASET>>,
                      <<0, o.OffsetLeft, 0, Byte(o.Width + o.OffsetLeft - 1)>>, 0) >>

\* the two address-set steps of the init list; width, height and offsets are
\* bytes, so the end addresses are computed modulo 256
AddressSteps(o) ==
    LET width == o.Width
        height == o.Height
        offsetLeft == o.OffsetLeft
        offsetTop == o.OffsetTop IN
    << commandAndData(<<ST7735_CASET>>,
                      <<0, offsetLeft, 0, Byte(width + offsetLeft - 1)>>, 0),
       commandAndData(<<ST7735_RASET>>,
                      <<0, offsetTop, 0, Byte(height + offsetTop - 1)>>, 0) >>

\* the init list of Dev.Init
InitBatch(o) ==
    << commandAndData(<<ST7735_SWRESET>>, <<>>, 150),
       commandAndData(<<ST7735_SLPOUT>>, <<>>, 500),
       commandAndData(<<ST7735_FRMCTR1>>, <<1, 44, 45>>, 0),
       commandAndData(<<ST7735_FRMCTR2>>, <<1, 44, 45>>, 0),
       commandAndData(<<ST7735_FRMCTR3>>, <<1, 44, 45, 1, 44, 45>>, 0),
       commandAndData(<<ST7735_INVCTR>>, <<7>>, 0),
       commandAndData(<<ST7735_PWCTR1>>, <<162, 2, 132>>, 0),
       commandAndData(<<ST7735_PWCTR2>>, <<10, 0>>, 0),
       commandAndData(<<ST7735_PWCTR4>>, <<138, 42>>, 0),
       commandAndData(<<ST7735_PWCTR5>>, <<138, 238>>, 0),
       commandAndData(<<ST7735_VMCTR1>>, <<14>>, 0),
       invert,
       commandAndData(<<ST7735_MADCTL>>, <<200>>, 0),
       commandAndData(<<ST7735_COLMOD>>, <<5>>, 0) >>
    \o AddressSteps(o) \o
    << commandAndData(<<ST7735_GMCTRP1>>,
                      <<2, 28, 7, 18, 55, 50, 41, 45, 41, 37, 43, 57, 0, 1, 3, 16>>, 0),
       commandAndData(<<ST7735_GMCTRN1>>,
                      <<3, 29, 7, 6, 46, 44, 41, 45, 46, 46, 55, 63, 0, 0, 2, 16>>, 0),
       commandAndData(<<ST7735_NORON>>, <<>>, 100),
       commandAndData(<<ST7735_DISPON>>, <<>>, 100) >>

DevInit(io, o) == sendBatch(io, InitBatch(o))

(***************************************************************************)
(* Powersave, SetBacklight, Halt.                                          *)
(***************************************************************************)
Powersave(io) == sendCommand(io, <<ST7735_SLPIN>>)

\* SetBacklight driving the pin low for true and high for false
SetBacklight_Inverted(io, hasBl, value) ==
    IF ~hasBl THEN io
    ELSE IF value THEN BacklightOut(io, "low")
    ELSE BacklightOut(io, "high")

\* hasBl: d.backlight is not nil
SetBacklight(io, hasBl, value) ==
    IF ~hasBl THEN io
    ELSE IF value THEN BacklightOut(io, "high")
    ELSE BacklightOut(io, "low")

\* Halt sending sleep-in before turning the backlight off
Halt_SleepFirst(io, hasBl) == SetBacklight(Powersave(io), hasBl, FALSE)

Halt(io, hasBl) == Powersave(SetBacklight(io, hasBl, FALSE))

(***************************************************************************)
(* SetWindow.                                                              *)
(***************************************************************************)
\* SetWindow adding the top offset to the columns and the left one to the rows
SetWindow_SwappedOffsets(io, o, x0, y0, x1, y1) ==
    LET yy0 == y0 + o.OffsetLeft
        yy1 == y1 + o.OffsetLeft
        xx0 == x0 + o.OffsetTop
        xx1 == x1 + o.OffsetTop IN
    sendBatch(Enter(io, x0, y0, x1, y1),
        << commandAndData(<<ST7735_CASET>>,
               <<Byte(Shr8(xx0)), Byte(xx0), Byte(Shr8(xx1)), Byte(xx1)>>, 0),
           commandAndData(<<ST7735_RASET>>,
               <<Byte(Shr8(yy0)), Byte(yy0), Byte(Shr8(yy1)), Byte(yy1)>>, 0),
           commandAndData(<<ST7735_RAMWR>>, <<>>, 0) >>)

SetWindow(io, o, x0, y0, x1, y1) ==
    LET yy0 == y0 + o.OffsetTop
        yy1 == y1 + o.OffsetTop
        xx0 == x0 + o.OffsetLeft
        xx1 == x1 + o.OffsetLeft
        commands ==
            << commandAndData(<<ST7735_CASET>>,
                   <<Byte(Shr8(xx0)), Byte(xx0), Byte(Shr8(xx1)), Byte(xx1)>>, 0),
               commandAndData(<<ST7735_RASET>>,
                   <<Byte(Shr8(yy0)), Byte(yy0), Byte(Shr8(yy1)), Byte(yy1)>>, 0),
               commandAndData(<<ST7735_RAMWR>>, <<>>, 0) >> IN
    sendBatch(Enter(io, x0, y0, x1, y1), commands)

(***************************************************************************)
(* image.Rectangle and image.RGBA, as DisplayImage uses them.              *)
(***************************************************************************)
Pt(x, y) == [X |-> x, Y |-> y]

Rect(x0, y0, x1, y1) == [Min |-> Pt(x0, y0), Max |-> Pt(x1, y1)]

\* image.ZR
ZR == Rect(0, 0, 0, 0)

RectEmpty(r) == r.Min.X >= r.Max.X \/ r.Min.Y >= r.Max.Y

RectAdd(r, p) == Rect(r.Min.X + p.X, r.Min.Y + p.Y, r.Max.X + p.X, r.Max.Y + p.Y)

RectSub(r, p) == Rect(r.Min.X - p.X, r.Min.Y - p.Y, r.Max.X - p.X, r.Max.Y - p.Y)

RectIntersect(r, s) ==
    LET t == Rect(Max(r.Min.X, s.Min.X), Max(r.Min.Y, s.Min.Y),
                  Min(r.Max.X, s.Max.X), Min(r.Max.Y, s.Max.Y)) IN
    IF RectEmpty(t) THEN ZR ELSE t

PtIn(p, r) == r.Min.X <= p.X /\ p.X < r.Max.X /\ r.Min.Y <= p.Y /\ p.Y < r.Max.Y

RGBA(r, g, b, a) == [R |-> r, G |-> g, B |-> b, A |-> a]

\* the pixel stored in an image at (x, y); images here are filled by a
\* position-dependent pattern so that any two pixels of one image differ
Pix(img, x, y) ==
    RGBA((img.seed + 8 * x) % 256, (img.seed + 4 * y) % 256,
         (3 * img.seed + 8 * (x + y)) % 256, 255)

\* (*image.RGBA).SubImage(r): the view sharing the pixels of img
SubImage(img, r) ==
    LET q == RectIntersect(r, img.Rect) IN
    IF RectEmpty(q) THEN [Rect |-> ZR, seed |-> img.seed, none |-> TRUE]
    ELSE [Rect |-> q, seed |-> img.seed, none |-> FALSE]

\* (*image.RGBA).At(x, y)
At(img, x, y) ==
    IF ~PtIn(Pt(x, y), img.Rect) THEN RGBA(0, 0, 0, 0) ELSE Pix(img, x, y)

(***************************************************************************)
(* RGBATo565.                                                              *)
(***************************************************************************)
\* color.RGBA.RGBA(): each 8-bit channel widened to 16 bits (v | v << 8)
Widen(v) == v * 256 + v

\* RGBATo565 keeping five bits of green instead of six
RGBATo565_Green5(c) ==
    LET r == Widen(c.R)
        g == Widen(c.G)
        b == Widen(c.B) IN
    (((r \div 2048) * 2048) +
     (((g \div 2048) * 2048) \div 32) +
     (((b \div 2048) * 2048) \div 2048)) % 65536

RGBATo565(c) ==
    LET r == Widen(c.R)
        g == Widen(c.G)
        b == Widen(c.B) IN
    (((r \div 2048) * 2048) +
     (((g \div 1024) * 1024) \div 32) +
     (((b \div 2048) * 2048) \div 2048)) % 65536

(***************************************************************************)
(* DisplayImage and Display.                                               *)
(***************************************************************************)
\* the two loops exchanged: y outer, x inner
RECURSIVE pixelLoop_RowMajor(_, _, _, _, _)
pixelLoop_RowMajor(subImg, bounds, x, y, buf) ==
    IF ~(y < bounds.Max.Y) THEN buf
    ELSE IF ~(x < bounds.Max.X)
    THEN pixelLoop_RowMajor(subImg, bounds, bounds.Min.X, y + 1, buf)
    ELSE LET cd == RGBATo565(At(subImg, x, y)) IN
         pixelLoop_RowMajor(subImg, bounds, x + 1, y, buf \o <<Byte(Shr8(cd)), Byte(cd)>>)

\* the two nested loops filling buf: x outer, y inner
RECURSIVE pixelLoop(_, _, _, _, _)
pixelLoop(subImg, bounds, x, y, buf) ==
    IF ~(x < bounds.Max.X) THEN buf
    ELSE IF ~(y < bounds.Max.Y) THEN pixelLoop(subImg, bounds, x + 1, bounds.Min.Y, buf)
    ELSE LET cd == RGBATo565(At(subImg, x, y)) IN
         pixelLoop(subImg, bounds, x, y + 1, buf \o <<Byte(Shr8(cd)), Byte(cd)>>)

\* ClipBounds without the intersection with the panel rectangle
ClipBounds_NoClip(o, x, y, img) == RectAdd(img.Rect, Pt(x, y))

\* the rectangle DisplayImage clips to, in panel coordinates
ClipBounds(o, x, y, img) ==
    RectIntersect(RectAdd(img.Rect, Pt(x, y)), Rect(0, 0, o.Width, o.Height))

DisplayImage(io, o, x, y, img) ==
    LET offsetBounds == ClipBounds(o, x, y, img)
        bounds == RectSub(offsetBounds, Pt(x, y))
        a == SetWindow(io, o, offsetBounds.Min.X, offsetBounds.Min.Y,
                       offsetBounds.Max.X - 1, offsetBounds.Max.Y - 1) IN
    IF a.err # 0 THEN a
    ELSE LET subImg == SubImage(img, bounds)
             buf == pixelLoop(subImg, bounds, bounds.Min.X, bounds.Min.Y, <<>>) IN
         sendData(a, buf)

Display(io, o, data) ==
    LET a == SetWindow(io, o, 0, 0, Byte(o.Width - 1), Byte(o.Height - 1)) IN
    IF a.err # 0 THEN a ELSE sendData(a, data)

(***************************************************************************)
(* Inputs the caller and the environment choose from.                      *)
(***************************************************************************)
\* geometries handed to New; New accepts any four bytes
GeomSet ==
    { DefaultOpts, MkOpts(3, 2, 1, 2), MkOpts(4, 3, 0, 0), MkOpts(0, 2, 5, 0),
      MkOpts(200, 100, 100, 100) }

\* the *Opts argument of New: nil, or a pointer to a geometry
OptsPtrs == { [isNil |-> TRUE, v |-> MkOpts(0, 0, 0, 0)] } \cup
            { [isNil |-> FALSE, v |-> g] : g \in GeomSet }

WindowArgs ==
    { <<0, 0, 79, 159>>, <<0, 0, -1, -1>>, <<1, 2, 3, 4>>, <<300, 0, 301, 5>>,
      <<0, 0, 255, 255>>, <<-30, -5, 10, 10>> }

Images ==
    { [Rect |-> Rect(0, 0, 2, 2), seed |-> 5],
      [Rect |-> Rect(0, 0, 5, 4), seed |-> 9],
      [Rect |-> Rect(1, 1, 3, 4), seed |-> 17],
      [Rect |-> Rect(0, 0, 0, 3), seed |-> 1] }

Positions ==
    { <<0, 0>>, <<-1, -1>>, <<2, 1>>, <<78, 158>>, <<1000, 0>>, <<0, -1000>>,
      <<-4, 0>>, <<198, 98>> }

DataLens ==
    { n \in { k * ChunkSize + e : k \in 0..MaxChunks, e \in (0 - MaxExtra)..MaxExtra } :
        n >= 0 }

\* caller-prepared pixel bytes of n bytes; the period 251 is coprime to ChunkSize
Data(n) == [i \in 1..n |-> (7 * i + 3) % 251]

Payloads == { Data(n) : n \in DataLens }

\* channel values at the edges of the 5- and 6-bit fields
EdgeVals == {0, 1, 3, 4, 7, 8, 127, 128, 248, 251, 252, 255}

\* colors handed to RGBATo565: every 8-bit value of each channel against
\* fixed values of the other two, every triple of edge values, several alphas
Colors ==
    LET Fixed == {0, 90, 255}
        Triples ==
            { <<v, p, q>> : v \in 0..255, p \in Fixed, q \in Fixed } \cup
            { <<p, v, q>> : v \in 0..255, p \in Fixed, q \in Fixed } \cup
            { <<p, q, v>> : v \in 0..255, p \in Fixed, q \in Fixed } \cup
            (EdgeVals \X EdgeVals \X EdgeVals) IN
    { RGBA(t[1], t[2], t[3], a) : t \in Triples, a \in {0, 128, 255} }

NoReq == [op |-> "none", a |-> <<>>]

(***************************************************************************)
(* State machine.                                                          *)
(***************************************************************************)
Init ==
    /\ dev = "none"
    /\ opts = MkOpts(0, 0, 0, 0)
    /\ hasBacklight = FALSE
    /\ dc = "unknown"
    /\ bl = "unknown"
    /\ pending = NoReq
    /\ last = NoReq
    /\ log = <<>>
    /\ err = 0
    /\ ret = 0

\* New(p, dc, rst, backlight, o): connectOk is the outcome of p.Connect,
\* withBl whether a backlight pin is passed.  A nil o is dereferenced (*o).
New(connectOk, withBl, o) ==
    /\ dev = "none"
    /\ IF ~connectOk
       THEN dev' = "failed" /\ UNCHANGED <<opts, hasBacklight>>
       ELSE IF o.isNil
       THEN dev' = "panic" /\ UNCHANGED <<opts, hasBacklight>>
       ELSE dev' = "open" /\ opts' = o.v /\ hasBacklight' = withBl
    /\ last' = [op |-> "New", a |-> <<connectOk, withBl, o>>]
    /\ UNCHANGED <<dc, bl, pending, log, err, ret>>

\* the caller invokes a method of the handle; the recording starts afresh
Call(op, a) ==
    /\ dev = "open"
    /\ pending = NoReq
    /\ pending' = [op |-> op, a |-> a]
    /\ last' = NoReq
    /\ log' = <<>>
    /\ err' = 0
    /\ UNCHANGED <<dev, opts, hasBacklight, dc, bl, ret>>

\* the method returns: r is the io record at its return
Return(r) ==
    /\ log' = r.log
    /\ dc' = r.dc
    /\ bl' = r.bl
    /\ err' = r.err
    /\ last' = pending
    /\ pending' = NoReq
    /\ UNCHANGED <<dev, opts, hasBacklight, ret>>

DoInit ==
    /\ pending.op = "Init"
    /\ \E f \in 0..MaxInitFail : Return(DevInit(MkIo(dc, bl, f, FALSE), opts))

DoPowersave ==
    /\ pending.op = "Powersave"
    /\ \E f \in 0..MaxFail : Return(Powersave(MkIo(dc, bl, f, FALSE)))

DoHalt ==
    /\ pending.op = "Halt"
    /\ \E f \in 0..MaxFail, bf \in BOOLEAN :
          Return(Halt(MkIo(dc, bl, f, bf), hasBacklight))

DoSetBacklight ==
    /\ pending.op = "SetBacklight"
    /\ \E bf \in BOOLEAN :
          Return(SetBacklight(MkIo(dc, bl, 0, bf), hasBacklight, pending.a[1]))

DoSetWindow ==
    /\ pending.op = "SetWindow"
    /\ \E f \in 0..MaxFail :
          Return(SetWindow(MkIo(dc, bl, f, FALSE), opts,
                           pending.a[1], pending.a[2], pending.a[3], pending.a[4]))

DoDisplayImage ==
    /\ pending.op = "DisplayImage"
    /\ \E f \in 0..MaxFail :
          Return(DisplayImage(MkIo(dc, bl, f, FALSE), opts,
                              pending.a[1], pending.a[2], pending.a[3]))

DoDisplay ==
    /\ pending.op = "Display"
    /\ \E f \in 0..MaxFail :
          Return(Display(MkIo(dc, bl, f, FALSE), opts, pending.a[1]))

\* a call of the exported RGBATo565(c), which needs no handle; the function
\* is pure, so a behaviour holds one call of it
Convert(c) ==
    /\ last = NoReq
    /\ last' = [op |-> "RGBATo565", a |-> <<c>>]
    /\ ret' = RGBATo565(c)
    /\ UNCHANGED <<dev, opts, hasBacklight, dc, bl, pending, log, err>>

Next ==
    \/ \E ok \in BOOLEAN, withBl \in BOOLEAN, o \in OptsPtrs : New(ok, withBl, o)
    \/ Call("Init", <<>>)
    \/ Call("Powersave", <<>>)
    \/ Call("Halt", <<>>)
    \/ \E v \in BOOLEAN : Call("SetBacklight", <<v>>)
    \/ \E w \in WindowArgs : Call("SetWindow", w)
    \/ \E p \in Positions, img \in Images : Call("DisplayImage", <<p[1], p[2], img>>)
    \/ \E data \in Payloads : Call("Display", <<data>>)
    \/ DoInit
    \/ DoPowersave
    \/ DoHalt
    \/ DoSetBacklight
    \/ DoSetWindow
    \/ DoDisplayImage
    \/ DoDisplay

NextColor == last = NoReq /\ \E c \in Colors : Convert(c)

Spec == Init /\ [][Next]_vars

\* the color conversion alone, over the colors above
SpecColor == Init /\ [][NextColor]_vars

(***************************************************************************)
(* Reading the record of the operation that last returned.                 *)
(***************************************************************************)
\* operation op has returned and its record is in log
Done(op) == pending = NoReq /\ last.op = op

\* the transactions of the record, in order
Txs == SelectSeq(log, LAMBDA e : e.k = "tx")

\* the command transactions of the record, in order
CmdTxs == SelectSeq(log, LAMBDA e : e.k = "tx" /\ e.as = "cmd")

\* the data transactions of the record, in order
DataTxs == SelectSeq(log, LAMBDA e : e.k = "tx" /\ e.as = "data")

\* the entries of SetWindow in the record
WindowCalls == SelectSeq(log, LAMBDA e : e.k = "call")

\* no select-line write and no transaction of the record failed
NoFailure ==
    \A i \in 1..Len(log) : log[i].k \in {"dc", "tx"} => log[i].ok

\* the index in log of the first command transaction carrying opcode c (0: none)
CmdAt(c) ==
    LET S == { i \in 1..Len(log) :
                 log[i].k = "tx" /\ log[i].as = "cmd" /\ log[i].w = <<c>> } IN
    IF S = {} THEN 0 ELSE CHOOSE i \in S : \A j \in S : i <= j

\* a blocking wait of ms is recorded right after the transaction of opcode c
WaitFollows(c, ms) ==
    LET i == CmdAt(c) IN
    /\ i > 0
    /\ i < Len(log)
    /\ log[i + 1].k = "sleep"
    /\ log[i + 1].ms = ms

\* C1: after an Init in which nothing failed, a wait of 150 ms follows the
\* transaction of software reset (0x01), 500 ms that of sleep-out (0x11),
\* 100 ms that of normal-display-on (0x13) and 100 ms that of display-on
\* (0x29), each before the next command's transaction.
C1_InitWaits ==
    (Done("Init") /\ NoFailure) =>
        /\ WaitFollows(1, 150)
        /\ WaitFollows(17, 500)
        /\ WaitFollows(19, 100)
        /\ WaitFollows(41, 100)

\* one transaction as a claim reads it: who issued it and the bytes it carried
View(e) == [as |-> e.as, w |-> e.w]

\* the transactions of an Init with the geometry-dependent parameter bytes
\* replaced by <<-1>> and the inversion selection opcode by <<-2>>
InitView ==
    [i \in 1..Len(Txs) |->
        IF /\ Txs[i].as = "data"
           /\ i > 1
           /\ Txs[i - 1].w \in {<<42>>, <<43>>}
           /\ Len(Txs[i].w) = 4
           /\ \A j \in 1..4 : Txs[i].w[j] \in 0..255
        THEN [as |-> "data", w |-> <<-1>>]
        ELSE IF Txs[i].as = "cmd" /\ Txs[i].w \in {<<32>>, <<33>>}
        THEN [as |-> "cmd", w |-> <<-2>>]
        ELSE View(Txs[i])]

\* the 20 steps of the initialization sequence: opcode and parameter bytes
C2_Steps ==
    << <<1, <<>>>>, <<17, <<>>>>,
       <<177, <<1, 44, 45>>>>, <<178, <<1, 44, 45>>>>,
       <<179, <<1, 44, 45, 1, 44, 45>>>>, <<180, <<7>>>>,
       <<192, <<162, 2, 132>>>>, <<193, <<10, 0>>>>, <<195, <<138, 42>>>>,
       <<196, <<138, 238>>>>, <<197, <<14>>>>,
       <<-2, <<>>>>,
       <<54, <<200>>>>, <<58, <<5>>>>,
       <<42, <<-1>>>>, <<43, <<-1>>>>,
       <<224, <<2, 28, 7, 18, 55, 50, 41, 45, 41, 37, 43, 57, 0, 1, 3, 16>>>>,
       <<225, <<3, 29, 7, 6, 46, 44, 41, 45, 46, 46, 55, 63, 0, 0, 2, 16>>>>,
       <<19, <<>>>>, <<41, <<>>>> >>

\* a list of steps as transactions: the opcode as one command transaction,
\* then the parameters, when there are any, as one data transaction
RECURSIVE StepsAsTxs(_)
StepsAsTxs(steps) ==
    IF steps = <<>> THEN <<>>
    ELSE LET st == Head(steps) IN
         << [as |-> "cmd", w |-> <<st[1]>>] >>
         \o (IF st[2] = <<>> THEN <<>> ELSE << [as |-> "data", w |-> st[2]] >>)
         \o StepsAsTxs(Tail(steps))

\* C2: an Init in which nothing failed issues the 20 steps in the fixed order
\* 0x01, 0x11, 0xB1, 0xB2, 0xB3, 0xB4, 0xC0, 0xC1, 0xC3, 0xC4, 0xC5, inversion
\* selection, 0x36, 0x3A, 0x2A, 0x2B, 0xE0, 0xE1, 0x13, 0x29, each as one
\* command transaction followed by its parameter bytes (if any) as data, and
\* the bytes are the same for every geometry but for the four parameter bytes
\* of each of 0x2A and 0x2B.
C2_InitSequence ==
    (Done("Init") /\ NoFailure) =>
        /\ Len(CmdTxs) = 20
        /\ InitView = StepsAsTxs(C2_Steps)

C2_Witness ==
    /\ Done("Init")
    /\ NoFailure
    /\ opts # DefaultOpts
    /\ Len(Txs) = 35

\* C3: the inversion selection step of Init, between 0xC5 and 0x36, carries
\* the inversion-off opcode 0x20.
C3_NoInversion ==
    (Done("Init") /\ NoFailure) =>
        /\ Len(CmdTxs) >= 13
        /\ CmdTxs[11].w = <<197>>
        /\ CmdTxs[12].w = <<32>>
        /\ CmdTxs[13].w = <<54>>

\* the intersection of the image rectangle of the last DisplayImage, moved
\* by (x, y), with the panel rectangle (0,0)-(width,height)
ClipX0 == Max(last.a[3].Rect.Min.X + last.a[1], 0)

ClipY0 == Max(last.a[3].Rect.Min.Y + last.a[2], 0)

ClipX1 == Min(last.a[3].Rect.Max.X + last.a[1], opts.Width)

ClipY1 == Min(last.a[3].Rect.Max.Y + last.a[2], opts.Height)

Overlaps == ClipX0 < ClipX1 /\ ClipY0 < ClipY1

\* C4: a DisplayImage whose moved image rectangle does not meet the panel
\* rectangle calls no set-window and issues no transaction.
C4_NoTraffic ==
    (Done("DisplayImage") /\ ~Overlaps) => (WindowCalls = <<>> /\ Txs = <<>>)

RECURSIVE TotalLen(_)
TotalLen(txs) == IF txs = <<>> THEN 0 ELSE Len(Head(txs).w) + TotalLen(Tail(txs))

\* the data transactions recorded after the memory-write command
Streamed ==
    LET i == CmdAt(44) IN
    IF i = 0 THEN <<>>
    ELSE SelectSeq(SubSeq(log, i + 1, Len(log)),
                   LAMBDA e : e.k = "tx" /\ e.as = "data")

\* C5: a DisplayImage whose moved image rectangle meets the panel rectangle
\* calls set-window once, with (min.x, min.y, max.x-1, max.y-1) of the
\* intersection, and, when nothing fails, streams after the memory-write
\* command 2 * clipped_width * clipped_height bytes in all.
C5_ClipExact ==
    (Done("DisplayImage") /\ Overlaps) =>
        /\ Len(WindowCalls) = 1
        /\ WindowCalls[1].a = <<ClipX0, ClipY0, ClipX1 - 1, ClipY1 - 1>>
        /\ NoFailure =>
              TotalLen(Streamed) = 2 * (ClipX1 - ClipX0) * (ClipY1 - ClipY0)

\* an image larger than what is left of the panel at its position is clipped
C5_Witness ==
    /\ Done("DisplayImage")
    /\ Overlaps
    /\ NoFailure
    /\ (ClipX1 - ClipX0) * (ClipY1 - ClipY0) > 1
    /\ \/ ClipX1 - ClipX0 < last.a[3].Rect.Max.X - last.a[3].Rect.Min.X
       \/ ClipY1 - ClipY0 < last.a[3].Rect.Max.Y - last.a[3].Rect.Min.Y
    /\ TotalLen(Streamed) = 2 * (ClipX1 - ClipX0) * (ClipY1 - ClipY0)

\* the transactions of the record as a claim reads them
TxViews == [i \in 1..Len(Txs) |-> View(Txs[i])]

\* what a set-window is to emit: 0x2A with px, 0x2B with py, then 0x2C alone
WindowTxs(px, py) ==
    << [as |-> "cmd", w |-> <<42>>], [as |-> "data", w |-> px],
       [as |-> "cmd", w |-> <<43>>], [as |-> "data", w |-> py],
       [as |-> "cmd", w |-> <<44>>] >>

\* the corners of the last SetWindow with the panel offsets added
WinX0 == last.a[1] + opts.OffsetLeft

WinY0 == last.a[2] + opts.OffsetTop

WinX1 == last.a[3] + opts.OffsetLeft

WinY1 == last.a[4] + opts.OffsetTop

Hi(v) == (v \div 256) % 256

Lo(v) == v % 256

RECURSIVE Concat(_)
Concat(txs) == IF txs = <<>> THEN <<>> ELSE Head(txs).w \o Concat(Tail(txs))

\* C7: the payload of n bytes that Display hands to sendData goes out, when
\* nothing fails, in ceil(n / 4096) transactions (none for n = 0), all but the
\* last of 4096 bytes and the last of the remainder, whose concatenation is
\* the payload; n = 4097 gives two, the second of one byte.
C7_Chunking ==
    (Done("Display") /\ NoFailure) =>
        LET n == Len(last.a[1])
            cnt == (n + 4095) \div 4096 IN
        /\ Len(Streamed) = cnt
        /\ \A i \in 1..(cnt - 1) : Len(Streamed[i].w) = 4096
        /\ cnt > 0 => Len(Streamed[cnt].w) = n - 4096 * (cnt - 1)
        /\ Concat(Streamed) = last.a[1]
        /\ n = 4097 => (Len(Streamed) = 2 /\ Len(Streamed[2].w) = 1)

C7_Witness ==
    /\ Done("Display")
    /\ NoFailure
    /\ Len(last.a[1]) = 4097
    /\ Len(Streamed) = 2
    /\ Len(Streamed[2].w) = 1
    /\ Streamed[2].w[1] = last.a[1][4097]

\* C8: in the record of every operation, each command transaction goes out
\* with the select line low and each data transaction with it high, and the
\* line was written to that level, successfully, before the transaction with
\* no other write of the line in between.
C8_Framing ==
    \A i \in 1..Len(log) :
        log[i].k = "tx" =>
            LET need == IF log[i].as = "cmd" THEN "low" ELSE "high" IN
            /\ log[i].dc = need
            /\ \E j \in 1..(i - 1) :
                  /\ log[j].k = "dc"
                  /\ log[j].ok
                  /\ log[j].level = need
                  /\ \A m \in (j + 1)..(i - 1) : log[m].k # "dc"

\* a command goes out after data within one operation
C8_Witness ==
    /\ Done("Display")
    /\ NoFailure
    /\ Len(Streamed) = 2
    /\ \E i \in 1..Len(log) : \E j \in (i + 1)..Len(log) :
          /\ log[i].k = "tx" /\ log[i].as = "data" /\ log[i].dc = "high"
          /\ log[j].k = "tx" /\ log[j].as = "cmd" /\ log[j].dc = "low"

\* the number of select-line writes and transactions among the first i events
CallsUpTo(i) == Cardinality({ j \in 1..i : log[j].k \in {"dc", "tx"} })

\* C9: in every operation the first select-line write or transaction that
\* fails is the last event of the record (nothing is issued after it, so
\* nothing is retried and no later chunk goes out), the operation returns the
\* error of that call, it returns nil when nothing failed, and a failure
\* within set-window leaves DisplayImage and Display without any pixel data.
C9_AbortAtFirstFailure ==
    pending = NoReq =>
        /\ \A i \in 1..Len(log) :
              (log[i].k \in {"dc", "tx"} /\ ~log[i].ok) =>
                  (i = Len(log) /\ err = CallsUpTo(i))
        /\ NoFailure => err = 0
        /\ (last.op \in {"DisplayImage", "Display"} /\ err \in 1..10) =>
              Streamed = <<>>

\* the first of several chunks failed and the others were not sent
C9_Witness ==
    /\ Done("Display")
    /\ Len(last.a[1]) > 4096
    /\ err = 12
    /\ Len(Streamed) = 1
    /\ ~Streamed[1].ok

\* the record of one sleep-in command: the select line written low, then,
\* if that write succeeded, the single command transaction 0x10; the error
\* returned is that of the write or the transaction
SleepInOnly(l) ==
    /\ Len(l) >= 1
    /\ l[1].k = "dc"
    /\ l[1].level = "low"
    /\ IF l[1].ok
       THEN /\ Len(l) = 2
            /\ l[2].k = "tx"
            /\ l[2].as = "cmd"
            /\ l[2].w = <<16>>
            /\ (err = 0) <=> l[2].ok
       ELSE Len(l) = 1 /\ err # 0

\* C10: Powersave issues the sleep-in command 0x10 and nothing else (no data,
\* no backlight write); Halt first writes the backlight pin low when one is
\* configured, then issues the same sleep-in command whether or not that
\* write succeeded, and only the sleep-in command when no pin is configured;
\* both return the outcome of the sleep-in command.
C10_HaltPowersave ==
    /\ Done("Powersave") => SleepInOnly(log)
    /\ Done("Halt") =>
          IF hasBacklight
          THEN /\ Len(log) >= 1
               /\ log[1].k = "bl"
               /\ log[1].level = "low"
               /\ SleepInOnly(Tail(log))
          ELSE SleepInOnly(log)

\* the backlight write failed and sleep-in was sent all the same
C10_Witness ==
    /\ Done("Halt")
    /\ hasBacklight
    /\ Len(log) = 3
    /\ log[1].k = "bl"
    /\ ~log[1].ok
    /\ log[3].k = "tx"
    /\ log[3].ok
    /\ err = 0

\* the step in which a pending SetBacklight runs and returns
SetBacklightStep == pending.op = "SetBacklight" /\ pending' = NoReq

\* C11: SetBacklight(enabled) returns no error and leaves the transport and
\* the select line alone; without a backlight pin it changes nothing, with one
\* it writes the pin once, high for true and low for false, and a failure of
\* that write is dropped (the pin keeps its level, nothing is reported).
C11_SetBacklight ==
    [][SetBacklightStep =>
          /\ err' = 0
          /\ dc' = dc
          /\ UNCHANGED <<dev, opts, hasBacklight>>
          /\ \A i \in 1..Len(log') : log'[i].k = "bl"
          /\ IF ~hasBacklight
             THEN log' = <<>> /\ bl' = bl
             ELSE /\ Len(log') = 1
                  /\ log'[1].level = (IF pending.a[1] THEN "high" ELSE "low")
                  /\ bl' = (IF log'[1].ok THEN log'[1].level ELSE bl)]_vars

\* a failed write of the backlight pin was dropped
C11_Witness ==
    /\ Done("SetBacklight")
    /\ hasBacklight
    /\ last.a[1]
    /\ Len(log) = 1
    /\ log[1].k = "bl"
    /\ log[1].level = "high"
    /\ ~log[1].ok
    /\ err = 0

\* the channels of the color last converted
InR == last.a[1].R

InG == last.a[1].G

InB == last.a[1].B

\* C12: for every 8-bit r, g, b and every alpha, RGBATo565 returns
\* ((r & 0xF8) << 8) | ((g & 0xFC) << 3) | (b >> 3): bits 15..11 are the top
\* five bits of r, bits 10..5 the top six of g, bits 4..0 the top five of b;
\* alpha plays no part; black gives 0x0000, white 0xFFFF, red 0xF800, green
\* 0x07E0 and blue 0x001F.
C12_RGBATo565 ==
    Done("RGBATo565") =>
        /\ ret = ((InR \div 8) * 8) * 256 + ((InG \div 4) * 4) * 8 + (InB \div 8)
        /\ ret \div 2048 = InR \div 8
        /\ (ret \div 32) % 64 = InG \div 4
        /\ ret % 32 = InB \div 8
        /\ <<InR, InG, InB>> = <<0, 0, 0>> => ret = 0
        /\ <<InR, InG, InB>> = <<255, 255, 255>> => ret = 65535
        /\ <<InR, InG, InB>> = <<255, 0, 0>> => ret = 63488
        /\ <<InR, InG, InB>> = <<0, 255, 0>> => ret = 2016
        /\ <<InR, InG, InB>> = <<0, 0, 255>> => ret = 31

\* a color whose low bits are dropped in all three channels, alpha 0
C12_Witness ==
    /\ Done("RGBATo565")
    /\ last.a[1] = RGBA(255, 251, 7, 0)
    /\ ret = 65472

\* C13: Display(data) calls set-window once with the logical corners (0, 0,
\* width-1, height-1), for every geometry, and when nothing fails it then
\* sends exactly the caller's bytes, unchanged and in order, as the only data
\* after the memory-write command.
C13_DisplayFullArea ==
    Done("Display") =>
        /\ Len(WindowCalls) = 1
        /\ WindowCalls[1].a = <<0, 0, opts.Width - 1, opts.Height - 1>>
        /\ NoFailure =>
              /\ Concat(Streamed) = last.a[1]
              /\ Len(Txs) = 5 + Len(Streamed)

\* C14: every handle New returns has a geometry with offsetLeft + width <= 132
\* and offsetTop + height <= 162, and no set-window of the full visible area
\* programs an address beyond column 131 or row 161.
C14_GeometryInvariant ==
    /\ dev = "open" =>
          /\ opts.OffsetLeft + opts.Width <= 132
          /\ opts.OffsetTop + opts.Height <= 162
    /\ (Done("Display") /\ NoFailure) =>
          /\ WindowCalls[1].a[3] + opts.OffsetLeft <= 131
          /\ WindowCalls[1].a[4] + opts.OffsetTop <= 161

\* C15: New with a nil geometry returns a handle with the default geometry
\* (80, 160, 26, 1) whenever the transport connects, and New returns an error
\* and no handle exactly when the transport cannot be connected.
C15_NewDefaults ==
    last.op = "New" =>
        /\ (dev = "failed") <=> ~last.a[1]
        /\ dev # "failed" => dev = "open"
        /\ (last.a[1] /\ last.a[3].isNil) => opts = DefaultOpts

\* the k-th pixel (from 0) of the clipped region of the last DisplayImage,
\* columns outer and rows inner, read from the image at its own coordinates
RegionPixel(k) ==
    LET h == ClipY1 - ClipY0 IN
    Pix(last.a[3], ClipX0 - last.a[1] + (k \div h), ClipY0 - last.a[2] + (k % h))

\* C16: when nothing fails, the bytes DisplayImage streams for a clipped
\* region of width w and height h are, for k = 0 .. w*h-1, the high byte then
\* the low byte of RGBATo565 of the image pixel at column k div h, row k mod h
\* of the region (x ascending outer, y ascending inner).
C16_ColumnMajor ==
    (Done("DisplayImage") /\ Overlaps /\ NoFailure) =>
        LET n == (ClipX1 - ClipX0) * (ClipY1 - ClipY0)
            b == Concat(Streamed) IN
        /\ Len(b) = 2 * n
        /\ \A k \in 0..(n - 1) :
              /\ b[2 * k + 1] = RGBATo565(RegionPixel(k)) \div 256
              /\ b[2 * k + 2] = RGBATo565(RegionPixel(k)) % 256

\* a clipped region of at least two columns and two rows, cut on the left or
\* at the top, whose second streamed pixel is the one below the first
C16_Witness ==
    /\ Done("DisplayImage")
    /\ Overlaps
    /\ NoFailure
    /\ ClipX1 - ClipX0 >= 2
    /\ ClipY1 - ClipY0 >= 2
    /\ (last.a[1] < 0 \/ last.a[2] < 0)
    /\ Len(Concat(Streamed)) = 2 * (ClipX1 - ClipX0) * (ClipY1 - ClipY0)
    /\ Concat(Streamed)[3] =
          RGBATo565(Pix(last.a[3], ClipX0 - last.a[1], ClipY0 - last.a[2] + 1)) \div 256

\* the parameter transactions of the column- and row-address-set commands
\* in the record: each data transaction that follows a 0x2A or 0x2B command
AddressParams ==
    { i \in 2..Len(Txs) :
        /\ Txs[i].as = "data"
        /\ Txs[i - 1].as = "cmd"
        /\ Txs[i - 1].w \in { <<ST7735_CASET>>, <<ST7735_RASET>> } }

\* C17: in every column-address-set and row-address-set that set-window
\* issues, called directly, by DisplayImage or by Display, parameter bytes 1
\* and 3 (the high bytes of the two addresses) are 0, for every geometry and
\* every image position.
C17_HighByteZero ==
    (\E op \in {"SetWindow", "DisplayImage", "Display"} : Done(op)) =>
        \A i \in AddressParams : Txs[i].w[1] = 0 /\ Txs[i].w[3] = 0

\* C18: for every geometry with offsetLeft + width <= 132 and offsetTop +
\* height <= 162, width or height 0 included, the four parameter bytes of the
\* 0x2A and of the 0x2B step of Init are those that Display's set-window of
\* the full visible area sends.
C18_InitDisplaySameWindow ==
    (/\ Done("Display")
     /\ NoFailure
     /\ opts.OffsetLeft + opts.Width <= 132
     /\ opts.OffsetTop + opts.Height <= 162) =>
        /\ Txs[2].w = AddressSteps(opts)[1].data
        /\ Txs[4].w = AddressSteps(opts)[2].data

====
